---- MODULE Spec2Model ----
(***************************************************************************)
(* Model of lukas/wandb-mcp: the library functions of get_wandb_runs.py    *)
(* and the registered tools of wandb_mcp_server.py, run against a remote   *)
(* tracking service that holds one project's runs.                         *)
(*                                                                         *)
(* Strings the code looks inside (run names, tags, search strings) are     *)
(* sequences of character codes; strings it only compares for equality     *)
(* (states, dictionary keys, tool names) are TLA+ strings.  A falsy         *)
(* optional argument (None, "" or {}) is the empty sequence.               *)
(***************************************************************************)
EXTENDS Integers, Sequences, FiniteSets, TLC

VARIABLES
    store,    \* the runs of the project, as the remote service holds them
    op,       \* the function or tool being called, "none" between calls
    args,     \* its arguments, and which remote request fails (fault)
    outcome,  \* how the call ended: its value or its exception
    inv       \* the get_wandb_runs invocations in progress, statement by statement

vars == <<store, op, args, outcome, inv>>

\* ---------------------------------------------------------------- bounds
MaxRuns == 2
MaxFilters == 2
MaxCols == 3
MaxRows == 2
MaxProjects == 1
MaxCalls == 2

\* per_page: int = 50
DefaultPerPage == 50

\* ------------------------------------------------------------ sequences
Range(s) == {s[i] : i \in 1..Len(s)}

SeqsUpTo(S, n) == UNION {[1..k -> S] : k \in 0..n}

Min2(a, b) == IF a < b THEN a ELSE b

\* s[a..b], empty when the bounds cross or leave the sequence
Slice(s, a, b) ==
    IF a > Min2(b, Len(s)) THEN <<>> ELSE SubSeq(s, a, Min2(b, Len(s)))

\* Python's `sub in text` for two strings
IsSubstring(sub, text) ==
    \E i \in 0..(Len(text) - Len(sub)) :
        \A j \in 1..Len(sub) : text[i + j] = sub[j]

\* Python's `x in lst` for a list
IsMember(x, lst) == \E i \in 1..Len(lst) : lst[i] = x

\* Python's str < str: lexicographic on the character codes
RECURSIVE StrLess(_, _)
StrLess(a, b) ==
    IF b = <<>> THEN FALSE
    ELSE IF a = <<>> THEN TRUE
    ELSE IF Head(a) # Head(b) THEN Head(a) < Head(b)
    ELSE StrLess(Tail(a), Tail(b))

\* ------------------------------------------------ the remote service's data
\* the names "a" and "ab" and the tag "b", with 1 and 2 the codes of a and b
Names == {<<1>>, <<1, 2>>}
States == {"finished", "running"}
TagLists == {<<>>, << <<2>> >>}

\* A run object of the remote client: the attributes the code reads.  The
\* creation time is one of two instants, fixed by the name and the tags.
RemoteRun(i, n, s, g) ==
    LET t == IF (n = <<1>>) = (g = <<>>) THEN 1 ELSE 2
    IN  [id |-> i, name |-> n, state |-> s, created_at |-> t, tags |-> g,
         config |-> [lr |-> t, run |-> i],
         summary |-> [loss |-> i, system_gpu |-> t],
         url |-> <<"runs", i>>]

\* Every project content of up to MaxRuns runs; run identifiers are unique
\* within the project.
Stores ==
    UNION {
        {[i \in 1..k |-> RemoteRun(i, f[i][1], f[i][2], f[i][3])] :
            f \in [1..k -> Names \X States \X TagLists]}
        : k \in 0..MaxRuns}

\* ----------------------------------------------------------- call outcomes
Ok(v, n) == [kind |-> "ok", value |-> v, requests |-> n]

Raise(e, n) == [kind |-> "error", value |-> e, requests |-> n]

\* exceptions of the remote client
RemoteAccessError == [type |-> "RemoteAccessError", msg |-> "remote call failed"]

RunNotFoundError(run_id) == [type |-> "RunNotFoundError", msg |-> <<"run", run_id>>]

KeyError(k) == [type |-> "KeyError", msg |-> k]

\* the value or the exception of one step inside a function body
Val(v) == [raised |-> FALSE, v |-> v]

Exc(e) == [raised |-> TRUE, v |-> e]

\* ------------------------------------------------------------------ sorting
\* Python's < on the values of one sort key
KeyLess(field, x, y) == IF field = "name" THEN StrLess(x, y) ELSE x < y

\* list.sort(key=..., reverse=...) is stable in both directions: an element
\* goes after every element it does not strictly precede.
RECURSIVE InsertInto(_, _, _, _)
InsertInto(sorted, x, field, reverse) ==
    IF sorted = <<>> THEN <<x>>
    ELSE LET y == Head(sorted)
             precedes == IF reverse THEN KeyLess(field, y[field], x[field])
                                    ELSE KeyLess(field, x[field], y[field])
         IN  IF precedes THEN <<x>> \o sorted
             ELSE <<y>> \o InsertInto(Tail(sorted), x, field, reverse)

RECURSIVE SortBy(_, _, _)
SortBy(seq, field, reverse) ==
    IF seq = <<>> THEN <<>>
    ELSE InsertInto(SortBy(SubSeq(seq, 1, Len(seq) - 1), field, reverse),
                    seq[Len(seq)], field, reverse)

\* order.lstrip('-'): an order string is its leading dashes, one element
\* each, followed by the field name
RECURSIVE Lstrip(_)
Lstrip(order) ==
    IF order # <<>> /\ Head(order) = "-" THEN Lstrip(Tail(order)) ELSE order

\* order.startswith('-')
StartsWithDash(order) == order # <<>> /\ Head(order) = "-"

Orders == {<<"-", "created_at">>, <<"created_at">>, <<"name">>, <<"-", "name">>}

\* order: str = "-created_at"
DefaultOrder == <<"-", "created_at">>

\* ------------------------------------------- the remote service's run query
\* The keyword arguments the service filters on.
RemoteMatches(run, params) ==
    /\ \A k \in DOMAIN params \cap {"state", "tags", "config", "summary"} :
           run[k] = params[k]
    /\ "search" \in DOMAIN params =>
           \/ IsSubstring(params["search"], run.name)
           \/ IsMember(params["search"], run.tags)

\* The runs api.runs(path, **params) yields when iterated: the runs matching
\* the query, in the requested order, one page of them.
ApiRuns(params) ==
    LET matching == SelectSeq(store, LAMBDA r : RemoteMatches(r, params))
        ordered == IF "order" \in DOMAIN params
                   THEN SortBy(matching, Head(Lstrip(params["order"])),
                               StartsWithDash(params["order"]))
                   ELSE matching
        page == IF "page" \in DOMAIN params THEN params["page"] ELSE 1
        size == params["per_page"]
    IN  Slice(ordered, (page - 1) * size + 1, page * size)

\* ------------------------------------------- get_wandb_runs.py: run listing
\* run_dict of the library: no "tags" entry
LibRunDict(run) ==
    [id |-> run.id, name |-> run.name, state |-> run.state,
     config |-> run.config, summary |-> run.summary,
     created_at |-> run.created_at, url |-> run.url]

\* for run in runs: runs_data.append(run_dict).  Request 1 is the api.runs
\* call and request i + 1 fetches the i-th run; the request numbered `fault`
\* fails (0: none does).
RECURSIVE LibCollect(_, _, _, _)
LibCollect(runs, i, fault, runs_data) ==
    IF i > Len(runs) THEN Ok(runs_data, Len(runs) + 1)
    ELSE IF fault = i + 1 THEN Raise(RemoteAccessError, i + 1)
    ELSE LibCollect(runs, i + 1, fault, Append(runs_data, LibRunDict(runs[i])))

\* all(run[key] == value for key, value in filters.items()), left to right
RECURSIVE MatchAll(_, _)
MatchAll(run, filters) ==
    IF filters = <<>> THEN Val(TRUE)
    ELSE LET key == Head(filters)[1]
             value == Head(filters)[2]
         IN  IF key \notin DOMAIN run THEN Exc(KeyError(key))
             ELSE IF run[key] = value THEN MatchAll(run, Tail(filters))
             ELSE Val(FALSE)

\* [run for run in runs_data if all(...)]
RECURSIVE LibFilter(_, _)
LibFilter(runs_data, filters) ==
    IF runs_data = <<>> THEN Val(<<>>)
    ELSE LET m == MatchAll(Head(runs_data), filters)
             rest == LibFilter(Tail(runs_data), filters)
         IN  IF m.raised THEN m
             ELSE IF rest.raised THEN rest
             ELSE Val(IF m.v THEN <<Head(runs_data)>> \o rest.v ELSE rest.v)

\* search in run['name'] or search in run['tags']
SearchTest(run, search) ==
    IF IsSubstring(search, run["name"]) THEN Val(TRUE)
    ELSE IF "tags" \notin DOMAIN run THEN Exc(KeyError("tags"))
    ELSE Val(IsMember(search, run["tags"]))

\* [run for run in runs_data if search in run['name'] or search in run['tags']]
RECURSIVE LibSearch(_, _)
LibSearch(runs_data, search) ==
    IF runs_data = <<>> THEN Val(<<>>)
    ELSE LET m == SearchTest(Head(runs_data), search)
             rest == LibSearch(Tail(runs_data), search)
         IN  IF m.raised THEN m
             ELSE IF rest.raised THEN rest
             ELSE Val(IF m.v THEN <<Head(runs_data)>> \o rest.v ELSE rest.v)

\* mutant of LibSort: reverse= is left out
LibSortAscending(runs_data, order) ==
    LET field == Head(Lstrip(order))
    IN  IF runs_data # <<>> /\ field \notin DOMAIN runs_data[1]
        THEN Exc(KeyError(field))
        ELSE Val(SortBy(runs_data, field, FALSE))

\* runs_data.sort(key=lambda run: run[order.lstrip('-')],
\*                reverse=(order.startswith('-')))
LibSort(runs_data, order) ==
    LET field == Head(Lstrip(order))
    IN  IF runs_data # <<>> /\ field \notin DOMAIN runs_data[1]
        THEN Exc(KeyError(field))
        ELSE Val(SortBy(runs_data, field, StartsWithDash(order)))

\* get_wandb_runs of the library
LibGetWandbRuns(per_page, page, order, filters, search, fault) ==
    LET runs == ApiRuns([per_page |-> per_page, page |-> page])
        fetched == IF fault = 1 THEN Raise(RemoteAccessError, 1)
                   ELSE LibCollect(runs, 1, fault, <<>>)
        n == fetched.requests
        filtered == IF filters # <<>> THEN LibFilter(fetched.value, filters)
                    ELSE Val(fetched.value)
        searched == IF search # <<>> THEN LibSearch(filtered.v, search)
                    ELSE Val(filtered.v)
        sorted == LibSort(searched.v, order)
    IN  IF fetched.kind = "error" THEN fetched
        ELSE IF filtered.raised THEN Raise(filtered.v, n)
        ELSE IF searched.raised THEN Raise(searched.v, n)
        ELSE IF sorted.raised THEN Raise(sorted.v, n)
        ELSE Ok(sorted.v, n)

\* --------------------------------------- wandb_mcp_server.py: run listing
\* mutant of ForwardedFilterKeys: "state" is left out of the list
ForwardedFilterKeysShort == {"tags", "config", "summary"}

\* if key in ["state", "tags", "config", "summary"]
ForwardedFilterKeys == {"state", "tags", "config", "summary"}

\* for key, value in filters.items(): ... query_params[key] = value
RECURSIVE AddFilters(_, _)
AddFilters(query_params, filters) ==
    IF filters = <<>> THEN query_params
    ELSE LET key == Head(filters)[1]
             value == Head(filters)[2]
         IN  AddFilters(IF key \in ForwardedFilterKeys
                        THEN (key :> value) @@ query_params
                        ELSE query_params,
                        Tail(filters))

\* query_params of the tool: per_page and order always, the forwarded
\* filters if filters is truthy, search if search is truthy
QueryParams(per_page, order, filters, search) ==
    LET base == [per_page |-> per_page, order |-> order]
        withFilters == IF filters # <<>> THEN AddFilters(base, filters) ELSE base
    IN  IF search # <<>> THEN ("search" :> search) @@ withFilters ELSE withFilters

\* run_dict of the tool
ToolRunDict(run) ==
    [id |-> run.id, name |-> run.name, state |-> run.state,
     config |-> run.config, summary |-> run.summary,
     created_at |-> run.created_at, url |-> run.url, tags |-> run.tags]

\* for run in runs: runs_data.append(run_dict), requests numbered as in the
\* library
RECURSIVE ToolCollect(_, _, _, _)
ToolCollect(runs, i, fault, runs_data) ==
    IF i > Len(runs) THEN Ok(runs_data, Len(runs) + 1)
    ELSE IF fault = i + 1 THEN Raise(RemoteAccessError, i + 1)
    ELSE ToolCollect(runs, i + 1, fault, Append(runs_data, ToolRunDict(runs[i])))

\* mutant of ToolGetWandbRuns: the loop's exception is caught and the runs
\* converted so far are returned
ToolGetWandbRunsPartial(per_page, order, filters, search, fault) ==
    LET runs == ApiRuns(QueryParams(per_page, order, filters, search))
        fetched == IF fault = 1 THEN Raise(RemoteAccessError, 1)
                   ELSE ToolCollect(runs, 1, fault, <<>>)
    IN  IF fetched.kind = "error"
        THEN Ok([i \in 1..(fetched.requests - 2) |-> ToolRunDict(runs[i])],
                fetched.requests)
        ELSE fetched

\* get_wandb_runs of the server
ToolGetWandbRuns(per_page, order, filters, search, fault) ==
    LET runs == ApiRuns(QueryParams(per_page, order, filters, search))
    IN  IF fault = 1 THEN Raise(RemoteAccessError, 1)
        ELSE ToolCollect(runs, 1, fault, <<>>)

\* ------------------------------------------------------ run detail accessors
\* api.run(path): request 1.  The client raises for an identifier that is
\* not in the project.
ApiRun(run_id, fault) ==
    IF fault = 1 THEN Exc(RemoteAccessError)
    ELSE IF run_id \notin 1..Len(store) THEN Exc(RunNotFoundError(run_id))
    ELSE Val(store[run_id])

\* run.history(stream=...): request 2.  A data frame: its columns, and under
\* each column the values of that stream's rows in recording order.
RunHistory(shape, stream, fault) ==
    IF fault = 2 THEN Exc(RemoteAccessError)
    ELSE Val([columns |-> shape.columns,
              data |-> [c \in Range(shape.columns) |->
                           [r \in 1..shape.rows |-> <<stream, c, r>>]]])

\* mutant of Bookkeeping: '_step' is left out of the list
BookkeepingShort == {"_timestamp", "_runtime"}

\* if column not in ['_timestamp', '_runtime', '_step']
Bookkeeping == {"_timestamp", "_runtime", "_step"}

\* for column in history.columns: ... metrics[column] = history[column].tolist()
RECURSIVE MetricsLoop(_, _, _)
MetricsLoop(history, i, metrics) ==
    IF i > Len(history.columns) THEN metrics
    ELSE LET column == history.columns[i]
         IN  MetricsLoop(history, i + 1,
                         IF column \notin Bookkeeping
                         THEN (column :> history.data[column]) @@ metrics
                         ELSE metrics)

\* the body shared by the four metric-history functions
MetricsOf(run_id, shape, stream, fault) ==
    LET run == ApiRun(run_id, fault)
        history == RunHistory(shape, stream, fault)
    IN  IF run.raised THEN Raise(run.v, 1)
        ELSE IF history.raised THEN Raise(history.v, 2)
        ELSE Ok(MetricsLoop(history.v, 1, <<>>), 2)

\* get_wandb_runs.py
LibGetRunTrainingMetrics(run_id, shape, fault) ==
    MetricsOf(run_id, shape, "default", fault)

LibGetRunSystemMetrics(run_id, shape, fault) ==
    MetricsOf(run_id, shape, "events", fault)

LibGetRunSummaryMetrics(run_id, fault) ==
    LET run == ApiRun(run_id, fault)
    IN  IF run.raised THEN Raise(run.v, 1) ELSE Ok(run.v.summary, 1)

\* mutant of GetRunConfig: the lookup's exception is caught and an empty
\* mapping returned
GetRunConfigOrEmpty(run_id, fault) ==
    LET run == ApiRun(run_id, fault)
    IN  IF run.raised THEN Ok(<<>>, 1) ELSE Ok(run.v.config, 1)

\* wandb_mcp_server.py
GetRunConfig(run_id, fault) ==
    LET run == ApiRun(run_id, fault)
    IN  IF run.raised THEN Raise(run.v, 1) ELSE Ok(run.v.config, 1)

GetRunTrainingMetrics(run_id, shape, fault) ==
    MetricsOf(run_id, shape, "default", fault)

GetRunSystemMetrics(run_id, shape, fault) ==
    MetricsOf(run_id, shape, "events", fault)

GetRunSummaryMetrics(run_id, fault) ==
    LET run == ApiRun(run_id, fault)
    IN  IF run.raised THEN Raise(run.v, 1) ELSE Ok(run.v.summary, 1)

\* --------------------------------------------- projects and raw queries
\* the i-th project object the service yields for the entity
RemoteProject(i) ==
    [name |-> <<"project", i>>, entity |-> "l2k2", description |-> <<"about", i>>,
     visibility |-> "private", created_at |-> i, updated_at |-> i + 1,
     tags |-> <<>>, id |-> i]

\* project_dict
ProjectDict(project) ==
    [name |-> project.name, entity |-> project.entity,
     description |-> project.description, visibility |-> project.visibility,
     created_at |-> project.created_at, updated_at |-> project.updated_at,
     tags |-> project.tags]

\* for project in projects: projects_data.append(project_dict); request 1
\* is api.projects and request i + 1 fetches the i-th project
RECURSIVE ProjectsCollect(_, _, _, _)
ProjectsCollect(n, i, fault, projects_data) ==
    IF i > n THEN Ok(projects_data, n + 1)
    ELSE IF fault = i + 1 THEN Raise(RemoteAccessError, i + 1)
    ELSE ProjectsCollect(n, i + 1, fault,
                         Append(projects_data, ProjectDict(RemoteProject(i))))

\* get_entity_projects, for an entity owning n projects
GetEntityProjects(n, fault) ==
    IF fault = 1 THEN Raise(RemoteAccessError, 1)
    ELSE ProjectsCollect(n, 1, fault, <<>>)

\* api.client.execute(query, variables): the service's raw answer, or its
\* error for a query it cannot execute
ClientExecute(query, variables, fault) ==
    IF fault = 1 \/ query = "malformed" THEN Exc(RemoteAccessError)
    ELSE Val([data |-> <<query, variables>>])

\* execute_graphql_query; `variables or {}` leaves an empty mapping empty
ExecuteGraphqlQuery(query, variables, fault) ==
    LET result == ClientExecute(query, IF variables # <<>> THEN variables ELSE <<>>,
                                fault)
    IN  IF result.raised THEN Raise(result.v, 1) ELSE Ok(result.v, 1)

\* ---------------------------------------------------------------- registry
\* mutant of RegisteredTools: get_run_config lacks its decorator
RegisteredToolsShort ==
    {"execute_graphql_query", "get_entity_projects", "get_wandb_runs",
     "get_run_training_metrics", "get_run_system_metrics",
     "get_run_summary_metrics"}

\* the functions decorated with @mcp.tool()
RegisteredTools ==
    {"execute_graphql_query", "get_entity_projects", "get_wandb_runs",
     "get_run_config", "get_run_training_metrics", "get_run_system_metrics",
     "get_run_summary_metrics"}

\* names a caller may ask the registry for
ToolNames ==
    {"execute_graphql_query", "get_entity_projects", "get_wandb_runs",
     "get_run_config", "get_run_training_metrics", "get_run_system_metrics",
     "get_run_summary_metrics", "main", "get_run_notes"}

UnknownToolError(name) == [type |-> "UnknownToolError", msg |-> name]

\* the registry's answer to a name it does not hold: no function runs
CallUnregistered(name) == Raise(UnknownToolError(name), 0)

\* -------------------------------------------------- get_wandb_runs.py: main
Printed(found, error, n) ==
    [kind |-> "printed", value |-> [found |-> found, error |-> error], requests |-> n]

\* the fault as the next call sees it, `used` requests having been issued
Later(fault, used) == IF fault > used THEN fault - used ELSE 0

\* for run in runs: the summary, the training metrics and the system metrics
\* of each run are fetched and printed; the first exception ends the loop in
\* the except clause.
RECURSIVE MainLoop(_, _, _, _, _)
MainLoop(runs, j, shape, fault, used) ==
    IF j > Len(runs) THEN Printed(Len(runs), "none", used)
    ELSE LET summary == LibGetRunSummaryMetrics(runs[j].id, Later(fault, used))
             u1 == used + summary.requests
             training == LibGetRunTrainingMetrics(runs[j].id, shape, Later(fault, u1))
             u2 == u1 + training.requests
             system == LibGetRunSystemMetrics(runs[j].id, shape, Later(fault, u2))
             u3 == u2 + system.requests
         IN  IF summary.kind = "error" THEN Printed(Len(runs), summary.value, u1)
             ELSE IF training.kind = "error" THEN Printed(Len(runs), training.value, u2)
             ELSE IF system.kind = "error" THEN Printed(Len(runs), system.value, u3)
             ELSE MainLoop(runs, j + 1, shape, fault, u3)

\* main(): entity and project are set, so the early return is not taken;
\* except Exception as e: print(f"Error fetching runs: {str(e)}")
LibMain(shape, fault) ==
    LET runs == LibGetWandbRuns(DefaultPerPage, 1, DefaultOrder, <<>>, <<>>, fault)
    IN  IF runs.kind = "error" THEN Printed("none", runs.value, runs.requests)
        ELSE MainLoop(runs.value, 1, shape, fault, runs.requests)

\* ------------------------------------------------------------ argument sets
FilterPairs ==
    {<<"state", "finished">>, <<"tags", << <<2>> >> >>, <<"name", <<1>> >>}

\* up to MaxFilters fields, each at most once, in the dictionary's order
FilterArgs ==
    {f \in SeqsUpTo(FilterPairs, MaxFilters) :
        \A i, j \in 1..Len(f) : i # j => f[i][1] # f[j][1]}

SearchArgs == {<<>>, <<2>>}

PerPages == {1, DefaultPerPage}

Pages == {1, 2}

\* the columns a history can have, in the order the frame holds them
ColumnOrder == <<"loss", "_step", "accuracy", "_timestamp", "_runtime">>

\* histories of up to MaxCols columns and up to MaxRows rows
Shapes ==
    {[columns |-> SelectSeq(ColumnOrder, LAMBDA c : c \in cs), rows |-> n] :
        cs \in {x \in SUBSET Range(ColumnOrder) : Cardinality(x) <= MaxCols},
        n \in 0..MaxRows}

\* one identifier more than the project can hold: a run that is not there
RunIds == 1..(MaxRuns + 1)

Queries == {"query", "malformed"}

Variables == {<<>>, [entity |-> "l2k2"]}

\* ------------------------------------------------------------------ actions
\* a tool invocation that has not started: its arguments and its locals
IdleFrame ==
    [pc |-> "idle", args |-> <<>>, query_params |-> <<>>, runs |-> <<>>,
     runs_data |-> <<>>, result |-> <<>>]

Init ==
    /\ store \in Stores
    /\ op = "none"
    /\ args = <<>>
    /\ outcome = Ok(<<>>, 0)
    /\ inv = [i \in 1..MaxCalls |-> IdleFrame]

\* one call of a library function or one tool invocation, start to end
Call(name, a, result) ==
    /\ op' = name
    /\ args' = a
    /\ outcome' = result
    /\ UNCHANGED <<store, inv>>

CallLibGetWandbRuns ==
    /\ op = "none"
    /\ \E per_page \in PerPages, page \in Pages, order \in Orders,
          filters \in FilterArgs, search \in SearchArgs, fault \in 0..(Len(store) + 1) :
           Call("lib.get_wandb_runs",
                [per_page |-> per_page, page |-> page, order |-> order,
                 filters |-> filters, search |-> search, fault |-> fault],
                LibGetWandbRuns(per_page, page, order, filters, search, fault))

CallLibGetRunTrainingMetrics ==
    /\ op = "none"
    /\ \E run_id \in RunIds, shape \in Shapes, fault \in 0..2 :
           Call("lib.get_run_training_metrics",
                [run_id |-> run_id, shape |-> shape, fault |-> fault],
                LibGetRunTrainingMetrics(run_id, shape, fault))

CallLibGetRunSystemMetrics ==
    /\ op = "none"
    /\ \E run_id \in RunIds, shape \in Shapes, fault \in 0..2 :
           Call("lib.get_run_system_metrics",
                [run_id |-> run_id, shape |-> shape, fault |-> fault],
                LibGetRunSystemMetrics(run_id, shape, fault))

CallLibGetRunSummaryMetrics ==
    /\ op = "none"
    /\ \E run_id \in RunIds, fault \in 0..1 :
           Call("lib.get_run_summary_metrics", [run_id |-> run_id, fault |-> fault],
                LibGetRunSummaryMetrics(run_id, fault))

CallLibMain ==
    /\ op = "none"
    /\ \E shape \in {x \in Shapes : Len(x.columns) <= 1 /\ x.rows <= 1},
          fault \in 0..(6 * Len(store) + 1) :
           Call("lib.main", [shape |-> shape, fault |-> fault], LibMain(shape, fault))

\* A tool invocation goes through the registry: the function runs if its
\* name is registered.
Invoke(name, a, result) ==
    /\ name \in RegisteredTools
    /\ Call(name, a, result)

CallToolGetWandbRuns ==
    /\ op = "none"
    /\ \E per_page \in PerPages, order \in Orders, filters \in FilterArgs,
          search \in SearchArgs, fault \in 0..(Len(store) + 1) :
           Invoke("get_wandb_runs",
                  [per_page |-> per_page, order |-> order,
                   filters |-> filters, search |-> search, fault |-> fault],
                  ToolGetWandbRuns(per_page, order, filters, search, fault))

CallExecuteGraphqlQuery ==
    /\ op = "none"
    /\ \E query \in Queries, variables \in Variables, fault \in 0..1 :
           Invoke("execute_graphql_query",
                  [query |-> query, variables |-> variables, fault |-> fault],
                  ExecuteGraphqlQuery(query, variables, fault))

CallGetEntityProjects ==
    /\ op = "none"
    /\ \E n \in 0..MaxProjects, fault \in 0..(MaxProjects + 1) :
           Invoke("get_entity_projects", [projects |-> n, fault |-> fault],
                  GetEntityProjects(n, fault))

CallGetRunConfig ==
    /\ op = "none"
    /\ \E run_id \in RunIds, fault \in 0..1 :
           Invoke("get_run_config", [run_id |-> run_id, fault |-> fault],
                  GetRunConfig(run_id, fault))

CallGetRunTrainingMetrics ==
    /\ op = "none"
    /\ \E run_id \in RunIds, shape \in Shapes, fault \in 0..2 :
           Invoke("get_run_training_metrics",
                  [run_id |-> run_id, shape |-> shape, fault |-> fault],
                  GetRunTrainingMetrics(run_id, shape, fault))

CallGetRunSystemMetrics ==
    /\ op = "none"
    /\ \E run_id \in RunIds, shape \in Shapes, fault \in 0..2 :
           Invoke("get_run_system_metrics",
                  [run_id |-> run_id, shape |-> shape, fault |-> fault],
                  GetRunSystemMetrics(run_id, shape, fault))

CallGetRunSummaryMetrics ==
    /\ op = "none"
    /\ \E run_id \in RunIds, fault \in 0..1 :
           Invoke("get_run_summary_metrics", [run_id |-> run_id, fault |-> fault],
                  GetRunSummaryMetrics(run_id, fault))

CallUnknownTool ==
    /\ op = "none"
    /\ \E name \in ToolNames \ RegisteredTools, run_id \in RunIds :
           Call(name, [run_id |-> run_id, fault |-> 0], CallUnregistered(name))

\* The caller has its result or its error; the next request can come.
Respond ==
    /\ op # "none"
    /\ op' = "none"
    /\ args' = <<>>
    /\ outcome' = Ok(<<>>, 0)
    /\ UNCHANGED <<store, inv>>

Next ==
    \/ CallLibGetWandbRuns
    \/ CallLibGetRunTrainingMetrics
    \/ CallLibGetRunSystemMetrics
    \/ CallLibGetRunSummaryMetrics
    \/ CallLibMain
    \/ CallToolGetWandbRuns
    \/ CallExecuteGraphqlQuery
    \/ CallGetEntityProjects
    \/ CallGetRunConfig
    \/ CallGetRunTrainingMetrics
    \/ CallGetRunSystemMetrics
    \/ CallGetRunSummaryMetrics
    \/ CallUnknownTool
    \/ Respond

Spec == Init /\ [][Next]_vars

\* ------------------------------------- concurrent get_wandb_runs invocations
\* The hosting process may be serving up to MaxCalls invocations of the
\* get_wandb_runs tool at once, each advancing a statement group at a time.

\* mutant of Locals: the locals are module-level, one copy for every call
SharedLocals(i) == 1

\* query_params, runs and runs_data are locals of the call: invocation i
\* works on its own
Locals(i) == i

\* projects without tags, for the interleavings
ConcStores == {st \in Stores : \A i \in 1..Len(st) : st[i].tags = <<>>}

ConcArgs ==
    [per_page : {DefaultPerPage}, order : {DefaultOrder, <<"name">>},
     filters : {<<>>, << <<"state", "finished">> >>}, search : {<<>>}]

InitConc ==
    /\ store \in ConcStores
    /\ op = "none"
    /\ args = <<>>
    /\ outcome = Ok(<<>>, 0)
    /\ inv = [i \in 1..MaxCalls |-> IdleFrame]

\* a caller's request arrives
Start(i) ==
    /\ inv[i].pc = "idle"
    /\ \E a \in ConcArgs :
           inv' = [inv EXCEPT ![i].pc = "params", ![i].args = a]
    /\ UNCHANGED <<store, op, args, outcome>>

\* api = wandb.Api(); query_params = {...}; the filters and the search added
BuildParams(i) ==
    /\ inv[i].pc = "params"
    /\ inv' = [inv EXCEPT
                  ![i].pc = "query",
                  ![Locals(i)].query_params =
                      QueryParams(inv[i].args.per_page, inv[i].args.order,
                                  inv[i].args.filters, inv[i].args.search)]
    /\ UNCHANGED <<store, op, args, outcome>>

\* runs = api.runs(path, **query_params); runs_data = []
Query(i) ==
    /\ inv[i].pc = "query"
    /\ inv' = [inv EXCEPT
                  ![i].pc = "loop",
                  ![Locals(i)].runs = ApiRuns(inv[Locals(i)].query_params),
                  ![Locals(i)].runs_data = <<>>]
    /\ UNCHANGED <<store, op, args, outcome>>

\* for run in runs: runs_data.append(run_dict), one run at a time
LoopStep(i) ==
    /\ inv[i].pc = "loop"
    /\ inv[Locals(i)].runs # <<>>
    /\ inv' = [inv EXCEPT
                  ![Locals(i)].runs = Tail(inv[Locals(i)].runs),
                  ![Locals(i)].runs_data =
                      Append(inv[Locals(i)].runs_data,
                             ToolRunDict(Head(inv[Locals(i)].runs)))]
    /\ UNCHANGED <<store, op, args, outcome>>

\* return runs_data
Return(i) ==
    /\ inv[i].pc = "loop"
    /\ inv[Locals(i)].runs = <<>>
    /\ inv' = [inv EXCEPT ![i].pc = "done",
                          ![i].result = inv[Locals(i)].runs_data]
    /\ UNCHANGED <<store, op, args, outcome>>

\* the result is sent; the call's frame is gone
Finish(i) ==
    /\ inv[i].pc = "done"
    /\ inv' = [inv EXCEPT ![i] = IdleFrame]
    /\ UNCHANGED <<store, op, args, outcome>>

NextConc ==
    \E i \in 1..MaxCalls :
        \/ Start(i)
        \/ BuildParams(i)
        \/ Query(i)
        \/ LoopStep(i)
        \/ Return(i)
        \/ Finish(i)

SpecConc == InitConc /\ [][NextConc]_vars

\* =================================================================== claims
Listing == op \in {"lib.get_wandb_runs", "get_wandb_runs"}

Returned == outcome.kind = "ok"

\* the value a filter pair asks for, read from a returned element
HasField(e, pair) == pair[1] \in DOMAIN e /\ e[pair[1]] = pair[2]

\* C1 (as claimed): a library run listing called with a filter mapping F
\* returns a sequence, and every element of it equals v on every field k of
\* F, whatever field names F holds.
C1_LocalFilterReturnsMatches ==
    (op = "lib.get_wandb_runs" /\ args.fault = 0 /\ args.search = <<>>) =>
        /\ Returned
        /\ \A i \in 1..Len(outcome.value) : \A j \in 1..Len(args.filters) :
               HasField(outcome.value[i], args.filters[j])

\* C2 (as claimed): a library run listing called with a non-empty search
\* string s returns a sequence whose elements each have s inside the name
\* or among the tags; the fetched runs failing both tests are left out.
C2_LocalSearchReturnsMatches ==
    (op = "lib.get_wandb_runs" /\ args.fault = 0 /\ args.search # <<>>
        /\ args.filters = <<>>) =>
        /\ Returned
        /\ \A i \in 1..Len(outcome.value) :
               LET r == store[outcome.value[i].id]
               IN  IsSubstring(args.search, r.name) \/ IsMember(args.search, r.tags)

\* C3: a run listing that returns is ordered by its sort key: descending
\* under a leading "-" (a.created_at >= b.created_at for "-created_at"),
\* ascending without one (a.name <= b.name for "name"); runs with equal keys
\* stay in the order of the source sequence.  Both variants.
C3_ListingSortedStable ==
    (Listing /\ Returned) =>
        LET R == outcome.value
            field == args.order[Len(args.order)]
            desc == args.order[1] = "-"
        IN  /\ \A i \in 1..(Len(R) - 1) :
                   /\ (field = "created_at" /\ desc) =>
                          R[i].created_at >= R[i + 1].created_at
                   /\ (field = "created_at" /\ ~desc) =>
                          R[i].created_at <= R[i + 1].created_at
                   /\ (field = "name" /\ ~desc) => ~StrLess(R[i + 1].name, R[i].name)
                   /\ (field = "name" /\ desc) => ~StrLess(R[i].name, R[i + 1].name)
            /\ \A i, j \in 1..Len(R) :
                   (i < j /\ R[i][field] = R[j][field]) => R[i].id < R[j].id

\* C3 witness: the library returned two runs, the newer first, which the
\* service had yielded in the other order.
C3_Witness ==
    /\ op = "lib.get_wandb_runs" /\ Returned
    /\ args.order = <<"-", "created_at">>
    /\ Len(outcome.value) = 2
    /\ outcome.value[1].created_at > outcome.value[2].created_at
    /\ outcome.value[1].id > outcome.value[2].id

MetricOps ==
    {"lib.get_run_training_metrics", "lib.get_run_system_metrics",
     "get_run_training_metrics", "get_run_system_metrics"}

\* C4: the mapping a metric-history function returns has no "_timestamp",
\* "_runtime" or "_step" key, has every other column of the fetched history
\* as a key, and holds under each key that column's values of the asked
\* stream, one per row, in recording order.
C4_MetricHistoryColumns ==
    (op \in MetricOps /\ Returned) =>
        LET m == outcome.value
            stream == IF op \in {"lib.get_run_training_metrics",
                                 "get_run_training_metrics"}
                      THEN "default" ELSE "events"
            cols == Range(args.shape.columns)
        IN  /\ DOMAIN m \cap {"_timestamp", "_runtime", "_step"} = {}
            /\ DOMAIN m = cols \ {"_timestamp", "_runtime", "_step"}
            /\ \A c \in DOMAIN m :
                   /\ Len(m[c]) = args.shape.rows
                   /\ \A r \in 1..args.shape.rows : m[c][r] = <<stream, c, r>>

\* C4 witness: a history with loss, accuracy and _step over MaxRows rows was
\* turned into a mapping.
C4_Witness ==
    /\ op = "get_run_system_metrics" /\ Returned
    /\ args.shape.columns = <<"loss", "_step", "accuracy">>
    /\ args.shape.rows = MaxRows

DetailTools ==
    {"get_run_config", "get_run_summary_metrics", "get_run_training_metrics",
     "get_run_system_metrics"}

\* C5: a detail accessor given a run identifier that is not in the project
\* ends in an error, never in a mapping, and the error is the client's
\* RunNotFoundError unless the request itself failed first.
C5_MissingRunRaises ==
    (op \in DetailTools /\ args.run_id \notin 1..Len(store)) =>
        /\ outcome.kind = "error"
        /\ args.fault # 1 => outcome.value.type = "RunNotFoundError"

\* C5 witness: the training-metric accessor was asked for a run one past the
\* last one of a non-empty project.
C5_Witness ==
    /\ op = "get_run_training_metrics"
    /\ Len(store) >= 1 /\ args.run_id = Len(store) + 1
    /\ args.fault = 0
    /\ outcome.kind = "error"

SevenTools ==
    {"execute_graphql_query", "get_entity_projects", "get_wandb_runs",
     "get_run_config", "get_run_training_metrics", "get_run_system_metrics",
     "get_run_summary_metrics"}

LibOps ==
    {"lib.get_wandb_runs", "lib.get_run_training_metrics",
     "lib.get_run_system_metrics", "lib.get_run_summary_metrics", "lib.main"}

\* C6: a tool invocation naming none of the seven registered tools ends in
\* UnknownToolError with no request sent to the remote service; the seven
\* names are not refused.
C6_UnknownToolRejected ==
    /\ (op \notin SevenTools \cup LibOps \cup {"none"}) =>
           /\ outcome.kind = "error"
           /\ outcome.value.type = "UnknownToolError"
           /\ outcome.requests = 0
    /\ (op \in SevenTools /\ outcome.kind = "error") =>
           outcome.value.type # "UnknownToolError"

\* C6 witness: a caller asked for get_run_notes.
C6_Witness == op = "get_run_notes" /\ outcome.kind = "error"

\* C7: in every library function and tool but main(), an invocation during
\* which a remote request failed ends in the error of that request, not in
\* a result; main() alone ends by printing, the error included.
C7_RemoteFailurePropagates ==
    /\ (op \notin {"none", "lib.main"} /\ args.fault \in 1..outcome.requests) =>
           /\ outcome.kind = "error"
           /\ outcome.value = RemoteAccessError
    /\ op # "lib.main" => outcome.kind # "printed"
    /\ op = "lib.main" =>
           /\ outcome.kind = "printed"
           /\ args.fault \in 1..outcome.requests =>
                  outcome.value.error = RemoteAccessError

\* C7 witness: the run-listing tool failed while fetching the second run,
\* the first one already converted.
C7_Witness ==
    /\ op = "get_wandb_runs"
    /\ args.fault = 3 /\ outcome.requests = 3
    /\ outcome.kind = "error"

RunAttributes ==
    {"id", "name", "state", "config", "summary", "created_at", "url", "tags"}

\* C9 (as claimed): every element a run listing returns, in either variant,
\* has all eight run attributes, each the value of the remote run.
C9_RunMappingsComplete ==
    (Listing /\ Returned) =>
        \A i \in 1..Len(outcome.value) :
            LET e == outcome.value[i]
            IN  /\ DOMAIN e = RunAttributes
                /\ \A k \in RunAttributes : e[k] = store[e.id][k]

\* C10 (as claimed): every run the run-listing tool returns equals the given
\* value on every field of the filter mapping, whatever its field names.
C10_ToolFilterAnyField ==
    (op = "get_wandb_runs" /\ Returned) =>
        \A i \in 1..Len(outcome.value) : \A j \in 1..Len(args.filters) :
            HasField(outcome.value[i], args.filters[j])

\* C10 (amended): every run the run-listing tool returns equals the given
\* value on every field of the filter mapping that is one of state, tags,
\* config and summary.
C10_ToolFilterForwardedFields ==
    (op = "get_wandb_runs" /\ Returned) =>
        \A i \in 1..Len(outcome.value) : \A j \in 1..Len(args.filters) :
            args.filters[j][1] \in {"state", "tags", "config", "summary"} =>
                HasField(outcome.value[i], args.filters[j])

\* C10 witness: a state filter kept one run of a project and left another
\* out.
C10_Witness ==
    /\ op = "get_wandb_runs" /\ Returned
    /\ args.filters = << <<"state", "finished">> >>
    /\ args.search = <<>> /\ args.per_page = DefaultPerPage
    /\ Len(outcome.value) = 1 /\ Len(store) = 2

\* C8: whatever the interleaving of the invocations in progress, the result
\* of each finished get_wandb_runs invocation is the result the same call
\* gives when it runs alone against the same project.
C8_InvocationsIndependent ==
    \A i \in 1..MaxCalls :
        inv[i].pc = "done" =>
            inv[i].result =
                ToolGetWandbRuns(inv[i].args.per_page, inv[i].args.order,
                                 inv[i].args.filters, inv[i].args.search, 0).value

\* C8 witness: an invocation finished with a non-empty result while another
\* one, called with other arguments, was in the middle of its loop.
C8_Witness ==
    \E i, j \in 1..MaxCalls :
        /\ i # j
        /\ inv[i].pc = "done" /\ inv[i].result # <<>>
        /\ inv[j].pc = "loop" /\ inv[j].runs_data # <<>> /\ inv[j].runs # <<>>
        /\ inv[i].args # inv[j].args

====
